---- MODULE Spec2Model ----
(***************************************************************************)
(* The timeline mutation engine of CUTLAB-AI (backend/timeline/engine.py)  *)
(* and its timeline state manager (backend/video_utils/                    *)
(* timeline_manager.py) with the requests of backend/main.py that use it.  *)
(*                                                                         *)
(* Engine: times (start_time, end_time, in_point, out_point) are Python floats.    *)
(* They are modelled as integers counting eighths of a second; a speed is  *)
(* 1 or 2 (the floats 1.0 and 2.0).  The arguments of the operations are   *)
(* whole multiples of a quarter second (2 * k eighths).  On these values   *)
(* every sum, difference, product and quotient the engine computes is a    *)
(* binary fraction that an IEEE double holds exactly, and it is again a    *)
(* whole number of eighths (OnGrid below checks this), so the integer      *)
(* arithmetic of the model is the arithmetic of the code.  The units of    *)
(* the manager are given where its part begins.                            *)
(***************************************************************************)
EXTENDS Integers, Sequences, FiniteSets, TLC

\* ------------------------------------------------------------------ bounds
\* time arguments (new_start, split_time, new_in, new_out) range over
\* 2 * k eighths of a second, k in -1..MaxStep
MaxStep == 2
\* source arguments (new_in, new_out) range over 2 * k, k in -1..MaxSrcStep
MaxSrcStep == 1
\* split_clip is not called on a track that already holds MaxClips clips
MaxClips == 3
\* split_clip is not called with a clip_id longer than MaxIdLen characters
MaxIdLen == 7
\* the trim-and-split caller draws new_in and new_out from 2 * k,
\* k in -1..MaxTrimStep
MaxTrimStep == 3
\* add_clip and split_clip of the timeline manager are not called on a
\* timeline that already holds MaxTimelineClips clips
MaxTimelineClips == 2
\* start_seconds, end_seconds, split and trim positions given to the
\* timeline manager range over 2 * k seconds, k in -1..MaxSec
MaxSec == 2
\* the wall clock of the timeline manager advances to MaxClock seconds past
\* the start
MaxClock == 1
\* set_transition and auto_generate_transitions are not called when they
\* would leave more than MaxTransitions stored transitions
MaxTransitions == 1
\* the requests that set transitions by pair are not made when they would
\* leave more than MaxPairs stored transitions
MaxPairs == 2
\* and are made on timelines of up to MaxPairClips clips
MaxPairClips == 3

\* --------------------------------------------------------------- constants
\* validators.py: MIN_CLIP_DURATION = 0.5 seconds, in eighths of a second
MIN_CLIP_DURATION == 4

VARIABLES
    pc,        \* "idle": the caller is about to call the engine;
               \* "returned": the call is over, its outcome not yet taken
    project,   \* the TimelineProject object the caller holds (proj)
    before,    \* the value of that object when the last call was made
    updated,   \* updated_project as the last call left it: the project it
               \* returned, or the discarded working copy when it raised
    result,    \* "ok" when the last call returned, else the error it raised
    call       \* the last call: [op, track_id, clip_id, a, b]

vars == <<pc, project, before, updated, result, call>>

\* TimelineStateManager (backend/video_utils/timeline_manager.py) and the
\* requests of backend/main.py that use it, for one project_id
VARIABLES
    disk,      \* storage/timelines/<project_id>_timeline.json:
               \* [exists, data], data the timeline_data last dumped
    phase,     \* per request: "none": no manager yet; "idle": it holds a
               \* manager; "returned": a call on its manager is just over
    mem,       \* per request: self.timeline_data of its manager
    clock,     \* int(datetime.now().timestamp()), counted from the start
    mcall,     \* the last manager call: [op, r, clip_id, args]
    mprev,     \* self.timeline_data as it was when that call was made
    mresult,   \* "none", or what that call returned: "success" / "failure"
    saved,     \* the requests whose manager has written the file
    race       \* [on, base]: on when the two requests were both given a
               \* manager before either wrote the file; base is the
               \* snapshot both managers loaded

mvars == <<disk, phase, mem, clock, mcall, mprev, mresult, saved, race>>

Max(a, b) == IF a >= b THEN a ELSE b
Min(a, b) == IF a <= b THEN a ELSE b

\* x / speed; exact on the values of the model (OnGrid)
OverSpeed(x, speed) == x \div speed

\* ------------------------------------------------------------------ schema
NewClip(id, s, e, i, o, sp) ==
    [clip_id |-> id, label |-> "Clip", start_time |-> s, end_time |-> e,
     in_point |-> i, out_point |-> o, speed |-> sp]

NewTrack(id, clips) == [track_id |-> id, clips |-> clips]

\* Sequence.duration is a stored field with default 0.0
NewProject(tracks) == [tracks |-> tracks, duration |-> 0]

\* Clip.duration property
Duration(c) == c.end_time - c.start_time
\* Clip.source_duration property
SourceDuration(c) == c.out_point - c.in_point

\* ---------------------------------------------------------- object identity
\* deepcopy(project) yields a new object: everything written through
\* updated_project lands in "copy", never in the caller's object "arg".
\* (Alias: what updated_project = project would name instead)
Alias(obj) == obj
deepcopy(obj) == "copy"

\* ------------------------------------------------------------------ lookup
\* next((t for t in tracks if t.track_id == track_id), None): index or 0
FindTrack(p, track_id) ==
    LET hits == {i \in 1..Len(p.tracks) : p.tracks[i].track_id = track_id}
    IN IF hits = {} THEN 0 ELSE CHOOSE i \in hits : \A j \in hits : i <= j

\* next((c for c in track.clips if c.clip_id == clip_id), None): index or 0
FindClip(track, clip_id) ==
    LET hits == {i \in 1..Len(track.clips) : track.clips[i].clip_id = clip_id}
    IN IF hits = {} THEN 0 ELSE CHOOSE i \in hits : \A j \in hits : i <= j

\* TimelineEngine._check_overlaps
check_overlaps(track, target_clip_id, new_start, new_end) ==
    \E i \in 1..Len(track.clips) :
        /\ track.clips[i].clip_id # target_clip_id
        /\ Max(track.clips[i].start_time, new_start)
             < Min(track.clips[i].end_time, new_end)

\* list.sort(key=lambda c: c.start_time): stable, ascending
RECURSIVE InsertByStart(_, _)
InsertByStart(sorted, c) ==
    IF sorted = << >> THEN <<c>>
    ELSE IF sorted[Len(sorted)].start_time <= c.start_time
         THEN Append(sorted, c)
         ELSE Append(InsertByStart(SubSeq(sorted, 1, Len(sorted) - 1), c),
                     sorted[Len(sorted)])

RECURSIVE SortByStart(_)
SortByStart(clips) ==
    IF clips = << >> THEN << >>
    ELSE InsertByStart(SortByStart(SubSeq(clips, 1, Len(clips) - 1)),
                       clips[Len(clips)])

\* track.clips.sort(key=lambda c: c.start_time)
\* (NoSort: the list as it would stay without the sort)
NoSort(clips) == clips
SortClips(clips) == SortByStart(clips)

Raise(msg, ref, obj) == [status |-> msg, ref |-> ref, obj |-> obj]
Return(ref, obj) == [status |-> "ok", ref |-> ref, obj |-> obj]

\* ------------------------------------------------------------ move_clip
\* duration = clip.end_time - clip.start_time; new_end = new_start + duration
\* (MoveKeepsEnd: the end a move would leave if only start_time were set)
MoveKeepsEnd(clip, new_start) == clip.end_time
MoveNewEnd(clip, new_start) == new_start + (clip.end_time - clip.start_time)

\* clip.start_time = new_start; clip.end_time = new_end
\* (MovedInSource: a move that would shift the source range as well)
MovedInSource(clip, new_start, new_end) ==
    [clip EXCEPT !.start_time = new_start,
                 !.end_time = new_end,
                 !.in_point = @ + (new_start - clip.start_time) * clip.speed,
                 !.out_point = @ + (new_start - clip.start_time) * clip.speed]
Moved(clip, new_start, new_end) ==
    [clip EXCEPT !.start_time = new_start, !.end_time = new_end]

move_clip(p, track_id, clip_id, new_start) ==
    IF new_start < 0 THEN Raise("Time cannot be negative", "arg", p) ELSE
    LET updated_project == deepcopy("arg")
        ti == FindTrack(p, track_id)
    IN IF ti = 0 THEN Raise("Track not found", updated_project, p) ELSE
    LET track == p.tracks[ti]
        ci == FindClip(track, clip_id)
    IN IF ci = 0 THEN Raise("Clip not found", updated_project, p) ELSE
    LET clip == track.clips[ci]
        new_end == MoveNewEnd(clip, new_start)
    IN IF check_overlaps(track, clip_id, new_start, new_end)
       THEN Raise("Move failed: Overlaps with existing clip", updated_project, p)
       ELSE LET moved == Moved(clip, new_start, new_end)
                clips == SortClips([track.clips EXCEPT ![ci] = moved])
            IN Return(updated_project, [p EXCEPT !.tracks[ti].clips = clips])

\* ------------------------------------------------------------ trim_clip
\* new_timeline_dur = (new_out - new_in) / clip.speed
\* new_end = clip.start_time + new_timeline_dur
\* (TrimIgnoresSpeed: the end a trim would compute without the division)
TrimIgnoresSpeed(clip, new_in, new_out) == clip.start_time + (new_out - new_in)
TrimNewEnd(clip, new_in, new_out) ==
    clip.start_time + OverSpeed(new_out - new_in, clip.speed)

\* clip.in_point = new_in; clip.out_point = new_out; clip.end_time = new_end
\* (TrimmedFromLeft: the clip a trim would leave if it held end_time and
\* moved start_time instead)
TrimmedFromLeft(clip, new_in, new_out, new_end) ==
    [clip EXCEPT !.in_point = new_in,
                 !.out_point = new_out,
                 !.start_time = clip.end_time - (new_end - clip.start_time)]
Trimmed(clip, new_in, new_out, new_end) ==
    [clip EXCEPT !.in_point = new_in,
                 !.out_point = new_out,
                 !.end_time = new_end]

trim_clip(p, track_id, clip_id, new_in, new_out) ==
    IF new_in < 0 \/ new_out <= new_in
    THEN Raise("Invalid trim points", "arg", p) ELSE
    LET updated_project == deepcopy("arg")
        ti == FindTrack(p, track_id)
    IN IF ti = 0 THEN Raise("Track not found", updated_project, p) ELSE
    LET track == p.tracks[ti]
        ci == FindClip(track, clip_id)
    IN IF ci = 0 THEN Raise("Clip not found", updated_project, p) ELSE
    LET clip == track.clips[ci]
        current_start == clip.start_time
        new_end == TrimNewEnd(clip, new_in, new_out)
    IN IF check_overlaps(track, clip_id, current_start, new_end)
       THEN Raise("Trim failed: Resulting clip overlaps", updated_project, p)
       ELSE LET trimmed == Trimmed(clip, new_in, new_out, new_end)
            IN Return(updated_project,
                      [p EXCEPT !.tracks[ti].clips[ci] = trimmed])

\* ----------------------------------------------------------- split_clip
\* split_source_point = clip.in_point + (split_time - clip.start_time) * speed
SplitSourcePoint(clip, split_time) ==
    clip.in_point + (split_time - clip.start_time) * clip.speed

\* the original clip, cut at the split: out_point and end_time move
SplitLeft(clip, split_time) ==
    [clip EXCEPT !.out_point = SplitSourcePoint(clip, split_time),
                 !.end_time = split_time]

\* the deep copy of the clip: new id and label, in_point and start_time move
\* (SplitRightKeepsIn: the copy as it would be with in_point left alone)
SplitRightKeepsIn(clip, split_time) ==
    [clip EXCEPT !.clip_id = clip.clip_id \o "_split",
                 !.label = clip.label \o " (Part 2)",
                 !.start_time = split_time]
SplitRight(clip, split_time) ==
    [clip EXCEPT !.clip_id = clip.clip_id \o "_split",
                 !.label = clip.label \o " (Part 2)",
                 !.in_point = SplitSourcePoint(clip, split_time),
                 !.start_time = split_time]

\* clip.start_time < split_time < clip.end_time
\* (WithinOrAtBounds: the test as it would be with the bounds included)
WithinOrAtBounds(clip, split_time) ==
    clip.start_time <= split_time /\ split_time <= clip.end_time
WithinBounds(clip, split_time) ==
    clip.start_time < split_time /\ split_time < clip.end_time

split_clip(p, track_id, clip_id, split_time) ==
    LET updated_project == deepcopy("arg")
        ti == FindTrack(p, track_id)
    IN IF ti = 0 THEN Raise("Track not found", updated_project, p) ELSE
    LET track == p.tracks[ti]
        ci == FindClip(track, clip_id)
    IN IF ci = 0 THEN Raise("Clip not found", updated_project, p) ELSE
    LET clip == track.clips[ci]
    IN IF ~WithinBounds(clip, split_time)
       THEN Raise("Split time must be within clip bounds", updated_project, p)
       ELSE LET right_clip == SplitRight(clip, split_time)
                left_clip == SplitLeft(clip, split_time)
                clips == SortClips(Append([track.clips EXCEPT ![ci] = left_clip],
                                          right_clip))
            IN Return(updated_project, [p EXCEPT !.tracks[ti].clips = clips])

\* ---------------------------------------------------------- delete_clip
\* [c for c in track.clips if c.clip_id != clip_id]
KeepOthers(clips, clip_id) == SelectSeq(clips, LAMBDA c : c.clip_id # clip_id)

delete_clip(p, track_id, clip_id) ==
    LET updated_project == deepcopy("arg")
        ti == FindTrack(p, track_id)
    IN IF ti = 0 THEN Raise("Track not found", updated_project, p) ELSE
    LET track == p.tracks[ti]
        kept == KeepOthers(track.clips, clip_id)
        written == [p EXCEPT !.tracks[ti].clips = kept]
    IN IF Len(kept) = Len(track.clips)
       THEN Raise("Clip not found", updated_project, written)
       ELSE Return(updated_project, written)

\* ------------------------------------------------------------- the caller
TimeArgs == {2 * k : k \in -1..MaxStep}
SourceArgs == {2 * k : k \in -1..MaxSrcStep}
\* the caller edits track t1; t0 is never named, tX does not exist
TrackArgs == {"t1", "tX"}
\* the ids of the clips on the track named, and one id no clip carries
ClipArgs(track_id) ==
    UNION {{project.tracks[i].clips[j].clip_id :
                j \in 1..Len(project.tracks[i].clips)} :
            i \in {k \in 1..Len(project.tracks) :
                      project.tracks[k].track_id = track_id}} \cup {"zz"}

Call(op, track_id, clip_id, a, b) ==
    [op |-> op, track_id |-> track_id, clip_id |-> clip_id, a |-> a, b |-> b]

\* a project built as the test block builds one (Clip, Track, Sequence,
\* TimelineProject), with a second track beside the one that is edited:
\* t0 holds c0 on 0-0.5 s (source 0-0.5 s, speed 1), t1 holds c1 on
\* 0-0.75 s (source 0-1.5 s, speed 2)
InitialProject ==
    NewProject(<<
        NewTrack("t0", <<NewClip("c0", 0, 4, 0, 4, 1)>>),
        NewTrack("t1", <<NewClip("c1", 0, 6, 0, 12, 2)>>) >>)

NoCall == Call("none", "", "", 0, 0)

\* __init__: "clips": [], "transitions": [], "duration": 0.0
\* (project_id, created_at, updated_at and settings are written but never
\* read by an operation and are left out)
NewTimeline == [clips |-> << >>, transitions |-> << >>, duration |-> 0]

Requests == {"r1", "r2"}

NoManagerCall == [op |-> "none", r |-> "", clip_id |-> "", args |-> << >>]

\* no timeline file yet, no request in flight
ManagerInit ==
    /\ disk = [exists |-> FALSE, data |-> NewTimeline]
    /\ phase = [r \in Requests |-> "none"]
    /\ mem = [r \in Requests |-> NewTimeline]
    /\ clock = 0
    /\ mcall = NoManagerCall
    /\ mprev = NewTimeline
    /\ mresult = "none"
    /\ saved = {}
    /\ race = [on |-> FALSE, base |-> NewTimeline]

Init ==
    /\ ManagerInit
    /\ pc = "idle"
    /\ project = InitialProject
    /\ before = InitialProject
    /\ updated = InitialProject
    /\ result = "none"
    /\ call = NoCall

\* TimelineEngine.op(proj, ...) runs to its return or raise.  What it wrote
\* through updated_project shows in the caller's object only when the two
\* are the same object.
Apply(c, out) ==
    /\ pc = "idle"
    /\ pc' = "returned"
    /\ call' = c
    /\ before' = project
    /\ project' = IF out.ref = "arg" THEN out.obj ELSE project
    /\ updated' = out.obj
    /\ result' = out.status
    /\ UNCHANGED mvars

\* proj = <what the call returned>; after a raise proj stays what it was
Assign ==
    /\ pc = "returned"
    /\ pc' = "idle"
    /\ project' = IF result = "ok" THEN updated ELSE project
    /\ before' = project'
    /\ updated' = project'
    /\ result' = "none"
    /\ call' = NoCall
    /\ UNCHANGED mvars

MoveClip ==
    \E track_id \in TrackArgs : \E clip_id \in ClipArgs(track_id), new_start \in TimeArgs :
        Apply(Call("move_clip", track_id, clip_id, new_start, 0),
              move_clip(project, track_id, clip_id, new_start))

TrimClip ==
    \E track_id \in TrackArgs : \E clip_id \in ClipArgs(track_id),
       new_in \in SourceArgs, new_out \in SourceArgs :
        Apply(Call("trim_clip", track_id, clip_id, new_in, new_out),
              trim_clip(project, track_id, clip_id, new_in, new_out))

SplitClip ==
    \E track_id \in TrackArgs : \E clip_id \in ClipArgs(track_id), split_time \in TimeArgs :
        /\ Len(clip_id) <= MaxIdLen
        /\ \A i \in 1..Len(project.tracks) :
               project.tracks[i].track_id = track_id
                   => Len(project.tracks[i].clips) < MaxClips
        /\ Apply(Call("split_clip", track_id, clip_id, split_time, 0),
                 split_clip(project, track_id, clip_id, split_time))

DeleteClip ==
    \E track_id \in TrackArgs : \E clip_id \in ClipArgs(track_id) :
        Apply(Call("delete_clip", track_id, clip_id, 0, 0),
              delete_clip(project, track_id, clip_id))

Next == MoveClip \/ TrimClip \/ SplitClip \/ DeleteClip \/ Assign

Spec == Init /\ [][Next]_<<vars, mvars>>

\* ---------------------------------------------- a caller that trims and splits
\* the same project under a caller that only splits clips and trims them,
\* with trim points reaching further into the source
WideSourceArgs == {2 * k : k \in -1..MaxTrimStep}

TrimClipWide ==
    \E track_id \in TrackArgs : \E clip_id \in ClipArgs(track_id),
       new_in \in WideSourceArgs, new_out \in WideSourceArgs :
        Apply(Call("trim_clip", track_id, clip_id, new_in, new_out),
              trim_clip(project, track_id, clip_id, new_in, new_out))

TrimNext == TrimClipWide \/ SplitClip \/ Assign

TrimSpec == Init /\ [][TrimNext]_<<vars, mvars>>

\* ================================================ TimelineStateManager
\* start_seconds, end_seconds, duration_seconds and the timeline duration
\* are floats counting seconds; they are modelled as integers counting
\* quarters of a second.  A speed is a float; it is modelled as an integer
\* counting twentieths (1.0 is 20, 0.25 is 5, 0.1 is 2).  MgrOnGrid below
\* checks that every quotient the manager computes is a whole number of
\* quarter seconds.

\* clip_data.get("speed", 1.0)
SPEED_ONE == 20
\* set_speed: max(0.25, min(4.0, speed))
SET_SPEED_MIN == 5
SPEED_MAX == 80
\* update_clip: max(0.1, min(4.0, updates["speed"]))
UPDATE_SPEED_MIN == 2

\* x / speed for a speed in twentieths
DivSpeed(x, speed) == (x * SPEED_ONE) \div speed

\* f"clip_{n}_{t}"
ClipId(n, t) == "clip_" \o ToString(n) \o "_" \o ToString(t)

\* for clip in self.timeline_data["clips"]: total += (end - start) / speed
RECURSIVE TotalDuration(_)
TotalDuration(clips) ==
    IF clips = << >> THEN 0
    ELSE TotalDuration(SubSeq(clips, 1, Len(clips) - 1))
            + DivSpeed(clips[Len(clips)].end_seconds
                          - clips[Len(clips)].start_seconds,
                       clips[Len(clips)].speed)

\* _recalculate_duration raises ZeroDivisionError on a clip of speed 0
DivisionFails(data) == \E i \in 1..Len(data.clips) : data.clips[i].speed = 0

\* save: recalculate the duration, dump the file, return True; any
\* exception is caught, nothing is written and False is returned
save(data) ==
    IF DivisionFails(data)
    THEN [ok |-> FALSE, data |-> data]
    ELSE [ok |-> TRUE,
          data |-> [data EXCEPT !.duration = TotalDuration(data.clips)]]

\* what a call leaves: self.timeline_data, whether the file was written,
\* and the value returned
Saved(data, ret) ==
    [data |-> save(data).data, written |-> save(data).ok, ret |-> ret]
NotSaved(data, ret) == [data |-> data, written |-> FALSE, ret |-> ret]

\* index of the first clip with the id, or 0
ClipIndex(data, clip_id) ==
    LET hits == {i \in 1..Len(data.clips) : data.clips[i].clip_id = clip_id}
    IN IF hits = {} THEN 0 ELSE CHOOSE i \in hits : \A j \in hits : i <= j

\* ------------------------------------------------------------- add_clip
add_clip(data, clip_data, now) ==
    LET n == Len(data.clips)
        clip == [clip_id |-> ClipId(n + 1, now),
                 start_seconds |-> clip_data.start_seconds,
                 end_seconds |-> clip_data.end_seconds,
                 speed |-> clip_data.speed,
                 position |-> n,
                 duration_seconds |->
                     clip_data.end_seconds - clip_data.start_seconds]
    IN Saved([data EXCEPT !.clips = Append(@, clip)], "success")

\* ---------------------------------------------------------- update_clip
\* max(0.1, min(4.0, updates["speed"]))
UpdateClamp(speed) == Max(UPDATE_SPEED_MIN, Min(SPEED_MAX, speed))

update_clip(data, clip_id, updates) ==
    LET ci == ClipIndex(data, clip_id)
    IN IF ci = 0 THEN NotSaved(data, "failure") ELSE
    LET clip == data.clips[ci]
        c1 == IF "start_seconds" \in DOMAIN updates
              THEN [clip EXCEPT !.start_seconds = updates.start_seconds]
              ELSE clip
        c2 == IF "end_seconds" \in DOMAIN updates
              THEN [c1 EXCEPT !.end_seconds = updates.end_seconds]
              ELSE c1
        c3 == IF "speed" \in DOMAIN updates
              THEN [c2 EXCEPT !.speed = UpdateClamp(updates.speed)]
              ELSE c2
        c4 == [c3 EXCEPT !.duration_seconds = c3.end_seconds - c3.start_seconds]
    IN Saved([data EXCEPT !.clips[ci] = c4], "success")

\* ------------------------------------------------------------ set_speed
\* speed = max(0.25, min(4.0, speed))
\* (Accelerate: a set_speed that would scale the clip's speed instead)
SetSpeedClamp(speed) == Max(SET_SPEED_MIN, Min(SPEED_MAX, speed))

Accelerate(clip, speed) ==
    Max(SET_SPEED_MIN, Min(SPEED_MAX, (clip.speed * speed) \div SPEED_ONE))
NewSpeed(clip, speed) == SetSpeedClamp(speed)

set_speed(data, clip_id, speed) ==
    LET ci == ClipIndex(data, clip_id)
    IN IF ci = 0 THEN NotSaved(data, "failure")
       ELSE Saved([data EXCEPT !.clips[ci].speed
                                   = NewSpeed(data.clips[ci], speed)],
                  "success")

\* ---------------------------------------------------------- remove_clip
\* for i, clip in enumerate(clips): clip["position"] = i
Renumber(clips) ==
    [i \in 1..Len(clips) |-> [clips[i] EXCEPT !.position = i - 1]]

remove_clip(data, clip_id) ==
    LET kept == SelectSeq(data.clips, LAMBDA c : c.clip_id # clip_id)
        left == [data EXCEPT !.clips = Renumber(kept)]
    IN IF Len(kept) < Len(data.clips)
       THEN Saved(left, "success")
       ELSE NotSaved(left, "failure")

\* ----------------------------------------------------------- split_clip
\* (the manager's split_clip; the engine's is split_clip above)
SplitHalves(data, original_clip, split_position, now) ==
    LET n == Len(data.clips)
    IN << [original_clip EXCEPT
              !.clip_id = ClipId(n + 1, now),
              !.end_seconds = split_position,
              !.duration_seconds = split_position - original_clip.start_seconds],
          [original_clip EXCEPT
              !.clip_id = ClipId(n + 2, now + 1),
              !.start_seconds = split_position,
              !.position = original_clip.position + 1,
              !.duration_seconds = original_clip.end_seconds - split_position] >>

manager_split_clip(data, clip_id, split_position, now) ==
    LET clip_idx == ClipIndex(data, clip_id)
    IN IF clip_idx = 0 THEN NotSaved(data, "failure") ELSE
    LET original_clip == data.clips[clip_idx]
    IN IF \/ split_position <= original_clip.start_seconds
          \/ split_position >= original_clip.end_seconds
       THEN NotSaved(data, "failure")
       ELSE Saved([data EXCEPT !.clips = Renumber(
                      SubSeq(data.clips, 1, clip_idx - 1)
                         \o SplitHalves(data, original_clip, split_position, now)
                         \o SubSeq(data.clips, clip_idx + 1, Len(data.clips)))],
                  "success")

\* -------------------------------------------------------------- trim_in
trim_in(data, clip_id, new_start) ==
    LET ci == ClipIndex(data, clip_id)
    IN IF ci = 0 THEN NotSaved(data, "failure") ELSE
       IF new_start >= data.clips[ci].end_seconds
       THEN NotSaved(data, "failure") ELSE
    LET start == IF new_start < 0 THEN 0 ELSE new_start
    IN Saved([data EXCEPT
                 !.clips[ci].start_seconds = start,
                 !.clips[ci].duration_seconds
                     = data.clips[ci].end_seconds - start],
             "success")

\* ------------------------------------------------------------- trim_out
trim_out(data, clip_id, new_end) ==
    LET ci == ClipIndex(data, clip_id)
    IN IF ci = 0 THEN NotSaved(data, "failure") ELSE
       IF new_end <= data.clips[ci].start_seconds
       THEN NotSaved(data, "failure")
       ELSE Saved([data EXCEPT
                      !.clips[ci].end_seconds = new_end,
                      !.clips[ci].duration_seconds
                          = new_end - data.clips[ci].start_seconds],
                  "success")

\* -------------------------------------------------------- reorder_clips
\* clip_map = {c["clip_id"]: c for c in clips}: the last clip of each id
LastClip(data, clip_id) ==
    data.clips[CHOOSE i \in 1..Len(data.clips) :
                  /\ data.clips[i].clip_id = clip_id
                  /\ \A j \in 1..Len(data.clips) :
                         data.clips[j].clip_id = clip_id => j <= i]

\* clip["position"] = i is written into the one dict of the id each time the
\* id comes up in clip_order: the last index stays
LastPlace(clip_order, clip_id) ==
    (CHOOSE i \in 1..Len(clip_order) :
        /\ clip_order[i] = clip_id
        /\ \A j \in 1..Len(clip_order) : clip_order[j] = clip_id => j <= i) - 1

reorder_clips(data, clip_order) ==
    LET ids == {data.clips[i].clip_id : i \in 1..Len(data.clips)}
        known == SelectSeq(clip_order, LAMBDA id : id \in ids)
        new_clips == [i \in 1..Len(known) |->
                         [LastClip(data, known[i]) EXCEPT
                             !.position = LastPlace(clip_order, known[i])]]
    IN Saved([data EXCEPT !.clips = new_clips], "success")

\* ---------------------------------------------------------- transitions
\* a transition's duration is a float counting seconds; it is modelled as
\* an integer counting tenths of a second
\* (TypesAndWipe: the set as it would be with one more type)
TypesAndWipe == {"cut", "cross-dissolve", "fade-in", "fade-out", "fade-in-out", "wipe"}
TRANSITION_TYPES == {"cut", "cross-dissolve", "fade-in", "fade-out", "fade-in-out"}
\* duration = max(0.1, min(5.0, duration))
TRANSITION_MIN == 1
TRANSITION_MAX == 50
\* auto_generate_transitions: 0.5 if default_type != "cut" else 0.0
AUTO_DURATION == 5

\* (a stored transition also holds id, from_position, to_position and
\* created_at, which no operation reads; they are left out)
\* index of the first transition of the pair, or 0
\* (NeverStored: a search that would find no pair)
NeverStored(data, from_clip_id, to_clip_id) == 0
TransitionIndex(data, from_clip_id, to_clip_id) ==
    LET hits == {k \in 1..Len(data.transitions) :
                    /\ data.transitions[k].from_clip_id = from_clip_id
                    /\ data.transitions[k].to_clip_id = to_clip_id}
    IN IF hits = {} THEN 0 ELSE CHOOSE k \in hits : \A j \in hits : k <= j

set_transition(data, from_clip_id, to_clip_id, transition_type, duration) ==
    IF transition_type \notin TRANSITION_TYPES
    THEN NotSaved(data, "failure") ELSE
    LET fi == ClipIndex(data, from_clip_id)
        ti == ClipIndex(data, to_clip_id)
    IN IF fi = 0 \/ ti = 0 THEN NotSaved(data, "failure") ELSE
    LET clamped == Max(TRANSITION_MIN, Min(TRANSITION_MAX, duration))
        k == TransitionIndex(data, from_clip_id, to_clip_id)
        transition == [from_clip_id |-> from_clip_id,
                       to_clip_id |-> to_clip_id,
                       type |-> transition_type,
                       duration |-> clamped]
    IN IF k # 0
       THEN Saved([data EXCEPT !.transitions[k].type = transition_type,
                               !.transitions[k].duration = clamped],
                  "success")
       ELSE Saved([data EXCEPT !.transitions = Append(@, transition)],
                  "success")

remove_transition(data, from_clip_id, to_clip_id) ==
    LET kept == SelectSeq(data.transitions,
                          LAMBDA t : ~(/\ t.from_clip_id = from_clip_id
                                       /\ t.to_clip_id = to_clip_id))
    IN IF Len(kept) < Len(data.transitions)
       THEN Saved([data EXCEPT !.transitions = kept], "success")
       ELSE NotSaved(data, "failure")

\* sorted(clips, key=lambda x: x["position"]): stable, ascending
RECURSIVE InsertByPosition(_, _)
InsertByPosition(sorted, c) ==
    IF sorted = << >> THEN <<c>>
    ELSE IF sorted[Len(sorted)].position <= c.position
         THEN Append(sorted, c)
         ELSE Append(InsertByPosition(SubSeq(sorted, 1, Len(sorted) - 1), c),
                     sorted[Len(sorted)])

RECURSIVE SortByPosition(_)
SortByPosition(clips) ==
    IF clips = << >> THEN << >>
    ELSE InsertByPosition(SortByPosition(SubSeq(clips, 1, Len(clips) - 1)),
                          clips[Len(clips)])

get_clips(data) == SortByPosition(data.clips)

\* get_transition: the place of the pair's transition, 0 for None
\* (NoTransition: a lookup that would find none)
NoTransition(data, from_clip_id, to_clip_id) == 0
get_transition(data, from_clip_id, to_clip_id) ==
    TransitionIndex(data, from_clip_id, to_clip_id)

\* auto_generate_transitions from the i-th clip of get_clips on: `out` is
\* what the set_transition calls made so far have left
RECURSIVE AutoGenerate(_, _, _, _)
AutoGenerate(out, clips, i, default_type) ==
    IF i >= Len(clips) THEN out
    ELSE IF get_transition(out.data, clips[i].clip_id, clips[i + 1].clip_id) # 0
         THEN AutoGenerate(out, clips, i + 1, default_type)
         ELSE LET set == set_transition(
                             out.data, clips[i].clip_id, clips[i + 1].clip_id,
                             default_type,
                             IF default_type # "cut" THEN AUTO_DURATION ELSE 0)
              IN AutoGenerate([data |-> set.data,
                               written |-> out.written \/ set.written,
                               ret |-> "success"],
                              clips, i + 1, default_type)

auto_generate_transitions(data, default_type) ==
    AutoGenerate(NotSaved(data, "success"), get_clips(data), 1,
                 IF default_type \in TRANSITION_TYPES THEN default_type
                 ELSE "cut")

\* ------------------------------------------------------------- requests
\* get_timeline_manager(project_id): __init__ builds the empty timeline and
\* load() replaces it by the file's content when the file exists
load(file) == IF file.exists THEN file.data ELSE NewTimeline

NoRace == [on |-> FALSE, base |-> NewTimeline]

Construct(r) ==
    /\ phase[r] = "none"
    /\ phase' = [phase EXCEPT ![r] = "idle"]
    /\ mem' = [mem EXCEPT ![r] = load(disk)]
    /\ race' = IF \E q \in Requests \ {r} :
                      /\ phase[q] # "none"
                      /\ q \notin saved
                      /\ mem[q] = load(disk)
               THEN [on |-> TRUE, base |-> load(disk)]
               ELSE NoRace
    /\ UNCHANGED <<disk, clock, mcall, mprev, mresult, saved, vars>>

\* self.timeline_data of the manager of request r
\* (FreshSnapshot: what a manager would edit if it re-read the file first)
FreshSnapshot(r) == load(disk)
timeline_data(r) == mem[r]

ManagerCall(op, r, clip_id, args) ==
    [op |-> op, r |-> r, clip_id |-> clip_id, args |-> args]

\* manager.op(...) of request r runs to its return
ManagerApply(r, c, out) ==
    /\ phase[r] = "idle"
    /\ \A q \in Requests : phase[q] # "returned"
    /\ phase' = [phase EXCEPT ![r] = "returned"]
    /\ mem' = [mem EXCEPT ![r] = out.data]
    /\ disk' = IF out.written THEN [exists |-> TRUE, data |-> out.data]
               ELSE disk
    /\ mcall' = c
    /\ mprev' = timeline_data(r)
    /\ mresult' = out.ret
    /\ saved' = IF out.written THEN saved \cup {r} ELSE saved
    /\ UNCHANGED <<clock, race, vars>>

\* the endpoint builds its response; the manager may be used again
Respond(r) ==
    /\ phase[r] = "returned"
    /\ phase' = [phase EXCEPT ![r] = "idle"]
    /\ mcall' = NoManagerCall
    /\ mprev' = NewTimeline
    /\ mresult' = "none"
    /\ UNCHANGED <<disk, mem, clock, saved, race, vars>>

\* the request is over and its manager is dropped
Finish(r) ==
    /\ phase[r] = "idle"
    /\ phase' = [phase EXCEPT ![r] = "none"]
    /\ mem' = [mem EXCEPT ![r] = NewTimeline]
    /\ saved' = saved \ {r}
    /\ race' = NoRace
    /\ UNCHANGED <<disk, clock, mcall, mprev, mresult, vars>>

\* the clip ids a caller may name: those of the timeline, and one of none
IdArgs(r) ==
    {timeline_data(r).clips[i].clip_id : i \in 1..Len(timeline_data(r).clips)}
        \cup {"clip_0_0"}

\* a state in which no call is in flight or just over
Quiet == \A r \in Requests : phase[r] # "returned"

\* ------------------------------------------- requests that set speeds
\* speeds 0.0, 0.05, 1.0, 2.0 and 8.0
SpeedArgs == {0, 1, 20, 40, 160}

\* ClipData of a 4-second source range with any of the speeds
SpeedClipData ==
    {[start_seconds |-> 0, end_seconds |-> 16, speed |-> s] : s \in SpeedArgs}

AddClip(r, clip_datas) ==
    \E clip_data \in clip_datas :
        /\ Len(timeline_data(r).clips) < MaxTimelineClips
        /\ ManagerApply(r, ManagerCall("add_clip", r, "", clip_data),
                        add_clip(timeline_data(r), clip_data, clock))

UpdateClip(r, all_updates) ==
    \E clip_id \in IdArgs(r), updates \in all_updates :
        ManagerApply(r, ManagerCall("update_clip", r, clip_id, updates),
                     update_clip(timeline_data(r), clip_id, updates))

SetSpeed(r) ==
    \E clip_id \in IdArgs(r), speed \in SpeedArgs :
        ManagerApply(r, ManagerCall("set_speed", r, clip_id, [speed |-> speed]),
                     set_speed(timeline_data(r), clip_id, speed))

AddSpeedClip == AddClip("r1", SpeedClipData)
UpdateSpeed == UpdateClip("r1", {[speed |-> s] : s \in SpeedArgs})

SpeedNext ==
    \/ Construct("r1") \/ Respond("r1") \/ Finish("r1")
    \/ AddSpeedClip \/ UpdateSpeed \/ SetSpeed("r1")

SpeedSpec == Init /\ [][SpeedNext]_<<vars, mvars>>

\* ------------------------------- requests that set and drop transitions
\* ClipData of a 4-second source range at speed 1.0
PlainClipData == {[start_seconds |-> 0, end_seconds |-> 16, speed |-> SPEED_ONE]}

\* transition types a request may name: one of the set and one outside it
TypeArgs == {"cross-dissolve", "wipe"}
\* a transition duration of 6.0 seconds
DurationArgs == {60}

\* clip_order lists of up to two of the ids given
OrderArgs(ids) ==
    {<< >>} \cup {<<a>> : a \in ids} \cup {<<a, b>> : a \in ids, b \in ids}

\* the ids of the clips of the timeline
ClipIds(r) ==
    {timeline_data(r).clips[i].clip_id : i \in 1..Len(timeline_data(r).clips)}

\* the ids a transition request may name: those of the clips, those the
\* stored transitions name, and one of none
EndpointArgs(r) ==
    IdArgs(r)
      \cup {timeline_data(r).transitions[k].from_clip_id :
               k \in 1..Len(timeline_data(r).transitions)}
      \cup {timeline_data(r).transitions[k].to_clip_id :
               k \in 1..Len(timeline_data(r).transitions)}

RemoveClip(r) ==
    \E clip_id \in IdArgs(r) :
        ManagerApply(r, ManagerCall("remove_clip", r, clip_id, << >>),
                     remove_clip(timeline_data(r), clip_id))

ManagerSplitClip(r, positions) ==
    \E clip_id \in IdArgs(r), split_position \in positions :
        /\ Len(timeline_data(r).clips) < MaxTimelineClips
        /\ ManagerApply(r, ManagerCall("split_clip", r, clip_id,
                                       [split_position |-> split_position]),
                        manager_split_clip(timeline_data(r), clip_id,
                                           split_position, clock))

ReorderClips(r, orders) ==
    \E clip_order \in orders :
        ManagerApply(r, ManagerCall("reorder_clips", r, "",
                                    [clip_order |-> clip_order]),
                     reorder_clips(timeline_data(r), clip_order))

SetTransition(r) ==
    \E from_clip_id \in IdArgs(r), to_clip_id \in IdArgs(r),
       transition_type \in TypeArgs, duration \in DurationArgs :
        LET out == set_transition(timeline_data(r), from_clip_id, to_clip_id,
                                  transition_type, duration)
        IN /\ Len(out.data.transitions) <= MaxTransitions
           /\ ManagerApply(r, ManagerCall("set_transition", r, from_clip_id,
                                          [to_clip_id |-> to_clip_id,
                                           type |-> transition_type,
                                           duration |-> duration]),
                           out)

RemoveTransition(r) ==
    \E from_clip_id \in EndpointArgs(r), to_clip_id \in EndpointArgs(r) :
        ManagerApply(r, ManagerCall("remove_transition", r, from_clip_id,
                                    [to_clip_id |-> to_clip_id]),
                     remove_transition(timeline_data(r), from_clip_id,
                                       to_clip_id))

AutoGenerateTransitions(r) ==
    \E default_type \in TypeArgs :
        LET out == auto_generate_transitions(timeline_data(r), default_type)
        IN /\ Len(out.data.transitions) <= MaxTransitions
           /\ ManagerApply(r, ManagerCall("auto_generate_transitions", r, "",
                                          [default_type |-> default_type]),
                           out)

AddPlainClip == AddClip("r1", PlainClipData)
SplitPlainClip == ManagerSplitClip("r1", {8})
ReorderKnownClips == ReorderClips("r1", OrderArgs(ClipIds("r1")))

TransitionNext ==
    \/ Construct("r1") \/ Respond("r1") \/ Finish("r1")
    \/ AddPlainClip \/ RemoveClip("r1") \/ SplitPlainClip \/ ReorderKnownClips
    \/ SetTransition("r1") \/ RemoveTransition("r1")
    \/ AutoGenerateTransitions("r1")

TransitionSpec == Init /\ [][TransitionNext]_<<vars, mvars>>

\* ------------------------------------- two requests for the same project
\* each request is given a manager, makes one edit that is saved, and ends
RaceAddClip ==
    \E r \in Requests : r \notin saved /\ AddClip(r, PlainClipData)

RaceSetSpeed ==
    \E r \in Requests : r \notin saved /\ SetSpeed(r)

RaceNext ==
    \/ \E r \in Requests : Construct(r)
    \/ \E r \in Requests : Respond(r)
    \/ \E r \in Requests : Finish(r)
    \/ RaceAddClip
    \/ RaceSetSpeed

RaceSpec == Init /\ [][RaceNext]_<<vars, mvars>>

\* ------------------------------------ requests that set source ranges
\* positions of -2, 0, 2, ... , 2 * MaxSec seconds, in quarter seconds
PositionArgs == {8 * k : k \in -1..MaxSec}

\* ClipData of any source range at speed 1.0
RangeClipData ==
    {[start_seconds |-> a, end_seconds |-> b, speed |-> SPEED_ONE] :
        a \in PositionArgs, b \in PositionArgs}

\* a ClipUpdate that sets start_seconds or end_seconds
RangeUpdates ==
    {[start_seconds |-> a] : a \in PositionArgs}
        \cup {[end_seconds |-> b] : b \in PositionArgs}

TrimIn(r) ==
    \E clip_id \in IdArgs(r), new_start \in PositionArgs :
        ManagerApply(r, ManagerCall("trim_in", r, clip_id,
                                    [new_position |-> new_start]),
                     trim_in(timeline_data(r), clip_id, new_start))

TrimOut(r) ==
    \E clip_id \in IdArgs(r), new_end \in PositionArgs :
        ManagerApply(r, ManagerCall("trim_out", r, clip_id,
                                    [new_position |-> new_end]),
                     trim_out(timeline_data(r), clip_id, new_end))

AddRangeClip == AddClip("r1", RangeClipData)
UpdateRange == UpdateClip("r1", RangeUpdates)
SplitAtPosition == ManagerSplitClip("r1", PositionArgs)

RangeNext ==
    \/ Construct("r1") \/ Respond("r1") \/ Finish("r1")
    \/ AddRangeClip \/ UpdateRange \/ SplitAtPosition
    \/ TrimIn("r1") \/ TrimOut("r1")

RangeSpec == Init /\ [][RangeNext]_<<vars, mvars>>

\* ------------------------------------------ requests as the clock runs
\* a second of wall-clock time passes between two calls
Tick ==
    /\ clock < MaxClock
    /\ Quiet
    /\ clock' = clock + 1
    /\ UNCHANGED <<disk, phase, mem, mcall, mprev, mresult, saved, race, vars>>

IdNext ==
    \/ Construct("r1") \/ Respond("r1") \/ Finish("r1")
    \/ AddPlainClip \/ RemoveClip("r1") \/ SplitPlainClip
    \/ Tick

IdSpec == Init /\ [][IdNext]_<<vars, mvars>>

\* --------------------------- splits by the engine and by the manager
\* a split request at any position, as long as the timeline stays within
\* the bound on its length
SplitAnywhere ==
    \E clip_id \in IdArgs("r1"), split_position \in PositionArgs :
        LET out == manager_split_clip(timeline_data("r1"), clip_id,
                                      split_position, clock)
        IN /\ Len(out.data.clips) <= MaxTimelineClips
           /\ ManagerApply("r1", ManagerCall("split_clip", "r1", clip_id,
                                             [split_position |-> split_position]),
                           out)

SplitNext ==
    \/ SplitClip \/ Assign
    \/ Construct("r1") \/ Respond("r1") \/ Finish("r1")
    \/ AddPlainClip \/ SplitAnywhere

SplitSpec == Init /\ [][SplitNext]_<<vars, mvars>>

\* ------------------------------ requests that set transitions by pair
\* clips are added up to MaxPairClips of them
AddPairClip ==
    \E clip_data \in PlainClipData :
        /\ Len(timeline_data("r1").clips) < MaxPairClips
        /\ ManagerApply("r1", ManagerCall("add_clip", "r1", "", clip_data),
                        add_clip(timeline_data("r1"), clip_data, clock))

SetPairTransition ==
    \E from_clip_id \in IdArgs("r1"), to_clip_id \in IdArgs("r1"),
       transition_type \in TypeArgs, duration \in DurationArgs :
        LET out == set_transition(timeline_data("r1"), from_clip_id,
                                  to_clip_id, transition_type, duration)
        IN /\ Len(out.data.transitions) <= MaxPairs
           /\ ManagerApply("r1", ManagerCall("set_transition", "r1",
                                             from_clip_id,
                                             [to_clip_id |-> to_clip_id,
                                              type |-> transition_type,
                                              duration |-> duration]),
                           out)

AutoGeneratePairs ==
    \E default_type \in TypeArgs :
        LET out == auto_generate_transitions(timeline_data("r1"), default_type)
        IN /\ Len(out.data.transitions) <= MaxPairs
           /\ ManagerApply("r1", ManagerCall("auto_generate_transitions", "r1",
                                             "", [default_type |-> default_type]),
                           out)

PairNext ==
    \/ Construct("r1") \/ Respond("r1") \/ Finish("r1")
    \/ AddPairClip
    \/ SetPairTransition \/ RemoveTransition("r1") \/ AutoGeneratePairs

PairSpec == Init /\ [][PairNext]_<<vars, mvars>>

\* ============================================================ properties
Returned(op) == pc = "returned" /\ call.op = op
Succeeded(op) == Returned(op) /\ result = "ok"

\* the clips of the track named, in list order; << >> when there is none
ClipsOn(p, track_id) ==
    IF FindTrack(p, track_id) = 0 THEN << >>
    ELSE p.tracks[FindTrack(p, track_id)].clips

Range(seq) == {seq[i] : i \in 1..Len(seq)}
Count(seq, x) == Cardinality({i \in 1..Len(seq) : seq[i] = x})
\* the two lists hold the same clips, each as often
SameClips(s, t) ==
    /\ Len(s) = Len(t)
    /\ \A x \in Range(s) \cup Range(t) : Count(s, x) = Count(t, x)

\* seq without its i-th element
Without(seq, i) == SubSeq(seq, 1, i - 1) \o SubSeq(seq, i + 1, Len(seq))

\* every track but the one named is the same in p and q
OtherTracksSame(p, q, track_id) ==
    /\ Len(p.tracks) = Len(q.tracks)
    /\ \A i \in 1..Len(p.tracks) :
           /\ p.tracks[i].track_id = q.tracks[i].track_id
           /\ p.tracks[i].track_id # track_id => p.tracks[i] = q.tracks[i]

\* half-open intervals [s1, e1) and [s2, e2) share a point
Intersect(s1, e1, s2, e2) == Max(s1, s2) < Min(e1, e2)

\* the arithmetic of the model is exact: every time is a whole number of
\* eighths, starts fall on the quarter-second grid of the arguments,
\* and a source duration divides by the speed without remainder
OnGrid ==
    \A p \in {project, updated} : \A i \in 1..Len(p.tracks) :
        \A c \in Range(p.tracks[i].clips) :
            /\ c.start_time % 2 = 0
            /\ SourceDuration(c) % c.speed = 0
            /\ c.start_time < c.end_time
            /\ c.in_point < c.out_point

\* C1: no two distinct clips on one track overlap, after any sequence of
\* move_clip, trim_clip, split_clip and delete_clip calls from a timeline of
\* non-overlapping clips with distinct ids.
C1_NoOverlap ==
    \A i \in 1..Len(project.tracks) :
        LET clips == project.tracks[i].clips
        IN \A j, k \in 1..Len(clips) :
              j # k => ~Intersect(clips[j].start_time, clips[j].end_time,
                                  clips[k].start_time, clips[k].end_time)

\* C2: the clip ids on a track stay pairwise distinct: split_clip gives the
\* right-hand clip an id no other clip carries.
C2_DistinctIds ==
    \A i \in 1..Len(project.tracks) :
        LET clips == project.tracks[i].clips
        IN \A j, k \in 1..Len(clips) :
              j # k => clips[j].clip_id # clips[k].clip_id

\* C3: when every clip lasted at least 0.5 s before a successful mutation,
\* every clip of the project it returns lasts at least 0.5 s.
AllLongEnough(p) ==
    \A i \in 1..Len(p.tracks) : \A c \in Range(p.tracks[i].clips) :
        Duration(c) >= MIN_CLIP_DURATION

C3_DurationFloor ==
    (pc = "returned" /\ result = "ok" /\ AllLongEnough(before))
        => AllLongEnough(updated)

\* C4: an accepted split_clip of clip c at time t leaves a left clip on
\* [c.start, t) and a right clip on [t, c.end) whose durations sum to c's,
\* with left.in_point = c.in_point, left.out_point = right.in_point and
\* right.out_point = c.out_point; the other clips of the track are kept.
IsSplitOf(c, t, left, right) ==
    /\ left.start_time = c.start_time /\ left.end_time = t
    /\ right.start_time = t /\ right.end_time = c.end_time
    /\ Duration(left) + Duration(right) = Duration(c)
    /\ left.in_point = c.in_point
    /\ left.out_point = right.in_point
    /\ right.out_point = c.out_point

C4_SplitPartition ==
    Succeeded("split_clip") =>
        LET old == ClipsOn(before, call.track_id)
            new == ClipsOn(updated, call.track_id)
        IN \E ci \in 1..Len(old) : \E left, right \in Range(new) :
              /\ old[ci].clip_id = call.clip_id
              /\ left.clip_id = call.clip_id
              /\ IsSplitOf(old[ci], call.a, left, right)
              /\ SameClips(new, Append([old EXCEPT ![ci] = left], right))

\* a split of a clip that has a neighbour on its track was accepted
C4_Witness ==
    /\ Succeeded("split_clip")
    /\ Len(ClipsOn(before, call.track_id)) >= 2

\* C5: every clip keeps end_time - start_time = (out_point - in_point) / speed
\* through any sequence of move_clip, trim_clip, split_clip and delete_clip.
SpeedConsistent(p) ==
    \A i \in 1..Len(p.tracks) : \A c \in Range(p.tracks[i].clips) :
        /\ Duration(c) = OverSpeed(SourceDuration(c), c.speed)
        /\ SourceDuration(c) % c.speed = 0

C5_SpeedDurationConsistent ==
    SpeedConsistent(project) /\ SpeedConsistent(updated)

\* a clip of speed 2 that came out of a split was trimmed to a new length
C5_Witness ==
    /\ Succeeded("trim_clip")
    /\ \E c \in Range(ClipsOn(before, call.track_id)) :
           /\ c.clip_id = call.clip_id
           /\ c.clip_id # "c1"
           /\ c.speed = 2
           /\ SourceDuration(c) # call.b - call.a

\* C6: a successful move_clip leaves the moved clip's end_time - start_time
\* as it was, for every accepted new_start.
C6_MoveKeepsDuration ==
    Succeeded("move_clip") =>
        LET old == ClipsOn(before, call.track_id)
            new == ClipsOn(updated, call.track_id)
        IN \E ci \in 1..Len(old) : \E moved \in Range(new) :
              /\ old[ci].clip_id = call.clip_id
              /\ moved.clip_id = call.clip_id
              /\ moved.start_time = call.a
              /\ Duration(moved) = Duration(old[ci])
              /\ SameClips(new, [old EXCEPT ![ci] = moved])

\* a clip was moved to a start other than the one it had
C6_Witness ==
    /\ Succeeded("move_clip")
    /\ \A c \in Range(ClipsOn(before, call.track_id)) :
           c.clip_id = call.clip_id => c.start_time # call.a

\* C7: move_clip on an existing clip succeeds exactly when new_start >= 0
\* and [new_start, new_start + duration) intersects no other clip of the
\* track; touching a neighbour's endpoint is accepted.
C7_MoveAcceptance ==
    LET old == ClipsOn(before, call.track_id)
        ci == FindClip([clips |-> old], call.clip_id)
    IN (Returned("move_clip") /\ ci # 0) =>
          (result = "ok" <=>
              /\ call.a >= 0
              /\ \A j \in 1..Len(old) :
                     j # ci =>
                        ~Intersect(old[j].start_time, old[j].end_time,
                                   call.a, call.a + Duration(old[ci])))

\* C8: no engine operation changes the project it was given, whether it
\* returns a new project or raises.
C8_InputUnchanged == pc = "returned" => project = before

\* an operation returned a project that differs from the one it was given
C8_Witness ==
    /\ pc = "returned" /\ result = "ok"
    /\ updated # before

\* C9: delete_clip removes exactly the clip with the id given and leaves
\* every other clip on every track as it was, in the same order; it fails
\* with "Clip not found" when no clip of the track has that id.
C9_DeleteExactlyOne ==
    LET old == ClipsOn(before, call.track_id)
        new == ClipsOn(updated, call.track_id)
    IN (Returned("delete_clip") /\ FindTrack(before, call.track_id) # 0) =>
          IF \E c \in Range(old) : c.clip_id = call.clip_id
          THEN /\ result = "ok"
               /\ \E ci \in 1..Len(old) :
                      /\ old[ci].clip_id = call.clip_id
                      /\ new = Without(old, ci)
               /\ OtherTracksSame(before, updated, call.track_id)
          ELSE result = "Clip not found"

\* C10: every track's clip list stays sorted by start_time through any
\* sequence of move_clip, trim_clip, split_clip and delete_clip calls.
Sorted(p) ==
    \A i \in 1..Len(p.tracks) :
        \A j \in 1..(Len(p.tracks[i].clips) - 1) :
            p.tracks[i].clips[j].start_time
                <= p.tracks[i].clips[j + 1].start_time

C10_SortedByStart ==
    Sorted(project) /\ (result = "ok" => Sorted(updated))

\* a move carried a clip past a neighbour: its place in the list changed
C10_Witness ==
    /\ Succeeded("move_clip")
    /\ C2_DistinctIds
    /\ FindClip([clips |-> ClipsOn(before, call.track_id)], call.clip_id)
           # FindClip([clips |-> ClipsOn(updated, call.track_id)], call.clip_id)

\* C18: after every successful engine operation the sequence's duration is
\* the largest end_time over all clips of all tracks, and zero when there
\* is no clip.
AllEnds(p) ==
    UNION {{c.end_time : c \in Range(p.tracks[i].clips)} :
              i \in 1..Len(p.tracks)}

MaxEnd(p) ==
    IF AllEnds(p) = {} THEN 0
    ELSE CHOOSE e \in AllEnds(p) : \A f \in AllEnds(p) : f <= e

C18_DurationIsMaxEnd ==
    (pc = "returned" /\ result = "ok") => updated.duration = MaxEnd(updated)

\* C19 as stated: a successful trim_clip with a changed new_in and the
\* clip's current out_point holds the clip's end_time fixed and moves only
\* its start_time.
InPointTrim(old, ci) ==
    /\ Succeeded("trim_clip")
    /\ ci # 0
    /\ call.b = old[ci].out_point
    /\ call.a # old[ci].in_point

C20_TrimOut ==
    LET old == ClipsOn(before, call.track_id)
        new == ClipsOn(updated, call.track_id)
        ci == FindClip([clips |-> old], call.clip_id)
    IN (Returned("trim_clip") /\ ci # 0
            /\ call.a = old[ci].in_point /\ call.b > call.a) =>
          LET new_end == old[ci].start_time
                            + OverSpeed(call.b - call.a, old[ci].speed)
          IN /\ result = "ok" =>
                   /\ new[ci].start_time = old[ci].start_time
                   /\ new[ci].end_time = new_end
             /\ (\E j \in 1..Len(old) :
                    /\ j # ci
                    /\ Intersect(old[j].start_time, old[j].end_time,
                                 old[ci].start_time, new_end))
                   => (result # "ok" /\ updated = before)

\* every timeline a manager holds or the file holds
Timelines == {mem[r] : r \in Requests} \cup {disk.data, mprev}

\* the arithmetic of the manager model is exact: the source range of every
\* clip divides by its speed into whole quarter seconds
MgrOnGrid ==
    \A data \in Timelines : \A c \in Range(data.clips) :
        c.speed # 0 =>
            ((c.end_seconds - c.start_seconds) * SPEED_ONE) % c.speed = 0

ManagerReturned(op) == mcall.op = op /\ mresult # "none"
After(r) == mem[r]

\* C11: set_speed is idempotent: applying set_speed(id, s) a second time
\* leaves the clips, the transitions and the timeline duration as the first
\* application left them.
C11_SetSpeedIdempotent ==
    ManagerReturned("set_speed") =>
        set_speed(After(mcall.r), mcall.clip_id, mcall.args.speed).data
            = After(mcall.r)

\* a set_speed call changed the speed of a clip to a clamped value
C11_Witness ==
    /\ ManagerReturned("set_speed")
    /\ mresult = "success"
    /\ After(mcall.r) # mprev
    /\ mcall.args.speed > SPEED_MAX

\* C12: after any sequence of add_clip, update_clip and set_speed calls
\* every stored clip has a speed within [0.25, 4.0].
SpeedsInRange(data) ==
    \A c \in Range(data.clips) :
        SET_SPEED_MIN <= c.speed /\ c.speed <= SPEED_MAX

C12_SpeedInRange == \A data \in Timelines : SpeedsInRange(data)

\* C13: set_transition succeeds only when both clips exist and the to-clip
\* comes right after the from-clip in timeline order; otherwise it fails
\* and stores no transition.
Follows(data, from_clip_id, to_clip_id) ==
    LET ordered == [clips |-> get_clips(data)]
    IN /\ ClipIndex(ordered, from_clip_id) # 0
       /\ ClipIndex(ordered, to_clip_id)
              = ClipIndex(ordered, from_clip_id) + 1

C13_TransitionAdjacency ==
    ManagerReturned("set_transition") =>
        LET adjacent == Follows(mprev, mcall.clip_id, mcall.args.to_clip_id)
        IN /\ mresult = "success" => adjacent
           /\ ~adjacent =>
                 /\ mresult = "failure"
                 /\ After(mcall.r).transitions = mprev.transitions

\* C14: every stored transition names a from-clip and a to-clip that are
\* both in the timeline, after any sequence of add_clip, remove_clip,
\* split_clip, reorder_clips, set_transition, remove_transition and
\* auto_generate_transitions.
NoDanglingTransition(data) ==
    \A t \in Range(data.transitions) :
        /\ ClipIndex(data, t.from_clip_id) # 0
        /\ ClipIndex(data, t.to_clip_id) # 0

C14_TransitionsReferenceClips ==
    \A data \in Timelines : NoDanglingTransition(data)

\* C15: when two requests are each given a manager, loading the same
\* snapshot, before either saves, and each then makes one edit and saves,
\* the file afterwards holds the snapshot with the later writer's edit
\* alone: the earlier writer's edit is dropped.
Redo(data, c) ==
    IF c.op = "add_clip" THEN add_clip(data, c.args, clock).data
    ELSE set_speed(data, c.clip_id, c.args.speed).data

LaterWriter(r, q) ==
    /\ r # q
    /\ race.on
    /\ phase[r] = "returned" /\ mcall.r = r
    /\ saved = {r, q}

C15_LastWriterWins ==
    \A r, q \in Requests :
        LaterWriter(r, q) =>
            /\ disk.data = After(r)
            /\ disk.data = Redo(race.base, mcall)

\* two requests each added a clip to the same snapshot; both were told the
\* clip was added and the file holds one clip more, not two
C15_Witness ==
    \E r, q \in Requests :
        /\ LaterWriter(r, q)
        /\ mcall.op = "add_clip" /\ mresult = "success"
        /\ Len(After(q).clips) = Len(race.base.clips) + 1
        /\ Len(disk.data.clips) = Len(race.base.clips) + 1

\* C16: after any sequence of add_clip, update_clip, split_clip, trim_in and
\* trim_out calls every stored clip has 0 <= start_seconds < end_seconds.
WellFormedRanges(data) ==
    \A c \in Range(data.clips) :
        0 <= c.start_seconds /\ c.start_seconds < c.end_seconds

C16_WellFormedRange == \A data \in Timelines : WellFormedRanges(data)

\* C17: the clip ids of a timeline are pairwise distinct after any sequence
\* of add_clip, remove_clip and split_clip calls, whatever the seconds at
\* which the calls happen.
DistinctClipIds(data) ==
    \A i, j \in 1..Len(data.clips) :
        i # j => data.clips[i].clip_id # data.clips[j].clip_id

C17_DistinctClipIds == \A data \in Timelines : DistinctClipIds(data)

\* C21: split_clip fails whenever the split point is not strictly inside
\* the clip (split <= start or split >= end), in the engine's split_clip
\* and in the manager's, and on that failure the number of clips, their
\* ids and their ranges are what they were.
\* index on its track of the clip a call names, or 0
Found(p, track_id, clip_id) ==
    IF FindTrack(p, track_id) = 0 THEN 0
    ELSE FindClip(p.tracks[FindTrack(p, track_id)], clip_id)

EngineSplitOutside ==
    /\ Returned("split_clip")
    /\ Found(before, call.track_id, call.clip_id) # 0
    /\ LET clip == ClipsOn(before, call.track_id)[
                       Found(before, call.track_id, call.clip_id)]
       IN call.a <= clip.start_time \/ call.a >= clip.end_time

ManagerSplitOutside ==
    /\ ManagerReturned("split_clip")
    /\ ClipIndex(mprev, mcall.clip_id) # 0
    /\ LET clip == mprev.clips[ClipIndex(mprev, mcall.clip_id)]
       IN \/ mcall.args.split_position <= clip.start_seconds
          \/ mcall.args.split_position >= clip.end_seconds

C21_SplitOutsideFails ==
    /\ EngineSplitOutside =>
           /\ result # "ok"
           /\ updated = before
           /\ project = before
    /\ ManagerSplitOutside =>
           /\ mresult = "failure"
           /\ After(mcall.r).clips = mprev.clips
           /\ load(disk).clips = mprev.clips

\* both have refused a split that was not inside a clip, on a track and on a
\* timeline that hold two clips or more
C21_Witness ==
    /\ EngineSplitOutside
    /\ Len(ClipsOn(before, call.track_id)) >= 2
    /\ ManagerSplitOutside
    /\ Len(mprev.clips) >= 2

\* C22: after a set_speed(clip_id, s) that found the clip, the clip's stored
\* speed is s clamped to [0.25, 4.0] and the duration the timeline records
\* counts the clip for its source duration (end_seconds - start_seconds)
\* divided by that speed, next to what the other clips take.
C22_SetSpeedDuration ==
    (ManagerReturned("set_speed") /\ mresult = "success") =>
        LET data == After(mcall.r)
            clip == data.clips[ClipIndex(mprev, mcall.clip_id)]
        IN /\ clip.speed = SetSpeedClamp(mcall.args.speed)
           /\ ~DivisionFails(data)
           /\ data.duration = TotalDuration(data.clips)

\* C23: a successful move_clip changes only the moved clip's start_time and
\* end_time and the order of the clips on its track: the moved clip's id,
\* in_point, out_point, speed and other fields, every other clip of the
\* track, the track's own fields and every other track are in the returned
\* project what they were in the input, and the input is left as it was.
C23_MoveFrame ==
    Succeeded("move_clip") =>
        LET old == ClipsOn(before, call.track_id)
            new == ClipsOn(updated, call.track_id)
            ti == FindTrack(before, call.track_id)
        IN /\ \E ci \in 1..Len(old) : \E moved \in Range(new) :
                 /\ old[ci].clip_id = call.clip_id
                 /\ moved = [old[ci] EXCEPT !.start_time = moved.start_time,
                                            !.end_time = moved.end_time]
                 /\ SameClips(new, [old EXCEPT ![ci] = moved])
           /\ OtherTracksSame(before, updated, call.track_id)
           /\ updated.tracks[ti] = [before.tracks[ti] EXCEPT !.clips = new]
           /\ updated = [before EXCEPT !.tracks = updated.tracks]
           /\ project = before

\* a clip with a neighbour on its track was moved to another start
C23_Witness ==
    /\ Succeeded("move_clip")
    /\ Len(ClipsOn(before, call.track_id)) >= 2
    /\ ClipsOn(updated, call.track_id) # ClipsOn(before, call.track_id)

\* C24: after any sequence of set_transition and auto_generate_transitions
\* calls, every stored transition of type "cut" has duration 0.0 and every
\* stored transition of another type has a duration within [0.1, 5.0].
C24_TransitionDurations ==
    \A data \in Timelines : \A k \in 1..Len(data.transitions) :
        LET t == data.transitions[k]
        IN IF t.type = "cut" THEN t.duration = 0
           ELSE TRANSITION_MIN <= t.duration /\ t.duration <= TRANSITION_MAX

\* C25: the transition kinds are the closed set {cut, cross-dissolve,
\* fade-in, fade-out, fade-in-out}: set_transition with any other type
\* returns failure and leaves the stored transitions as they were, so the
\* type of every stored transition is one of the set.
TransitionKinds == {"cut", "cross-dissolve", "fade-in", "fade-out", "fade-in-out"}

C25_ClosedTransitionKinds ==
    /\ (ManagerReturned("set_transition")
            /\ mcall.args.type \notin TransitionKinds) =>
           /\ mresult = "failure"
           /\ After(mcall.r).transitions = mprev.transitions
           /\ load(disk).transitions = mprev.transitions
    /\ \A data \in Timelines : \A k \in 1..Len(data.transitions) :
           data.transitions[k].type \in TransitionKinds

\* a set_transition of another type was refused between two stored clips,
\* with a transition already stored
C25_Witness ==
    /\ ManagerReturned("set_transition")
    /\ mcall.args.type \notin TransitionKinds
    /\ ClipIndex(mprev, mcall.clip_id) # 0
    /\ ClipIndex(mprev, mcall.args.to_clip_id) # 0
    /\ mprev.transitions # << >>

\* C26: set_transition upserts by the ordered pair (from_clip_id,
\* to_clip_id): after any sequence of set_transition, remove_transition and
\* auto_generate_transitions calls at most one stored transition has a
\* given ordered pair, and a set_transition of a stored pair replaces its
\* type and duration and leaves the number of transitions as it was.
SamePair(t, from_clip_id, to_clip_id) ==
    t.from_clip_id = from_clip_id /\ t.to_clip_id = to_clip_id

PairStored(data, from_clip_id, to_clip_id) ==
    \E k \in 1..Len(data.transitions) :
        SamePair(data.transitions[k], from_clip_id, to_clip_id)

Replaces ==
    /\ ManagerReturned("set_transition")
    /\ mresult = "success"
    /\ PairStored(mprev, mcall.clip_id, mcall.args.to_clip_id)

C26_UpsertByPair ==
    /\ \A data \in Timelines : \A j, k \in 1..Len(data.transitions) :
           SamePair(data.transitions[j], data.transitions[k].from_clip_id,
                    data.transitions[k].to_clip_id) => j = k
    /\ Replaces =>
           LET old == mprev.transitions
               new == After(mcall.r).transitions
           IN /\ Len(new) = Len(old)
              /\ \A k \in 1..Len(old) :
                     IF SamePair(old[k], mcall.clip_id, mcall.args.to_clip_id)
                     THEN /\ SamePair(new[k], mcall.clip_id,
                                      mcall.args.to_clip_id)
                          /\ new[k].type = mcall.args.type
                          /\ new[k].duration =
                                 Max(1, Min(50, mcall.args.duration))
                     ELSE new[k] = old[k]

\* the second of two stored transitions was given another type
C26_Witness ==
    /\ Replaces
    /\ Len(mprev.transitions) = 2
    /\ SamePair(mprev.transitions[2], mcall.clip_id, mcall.args.to_clip_id)
    /\ mprev.transitions[2].type # mcall.args.type

\* C27: after auto_generate_transitions(default_type), every pair of clips
\* that are consecutive in timeline order has a transition from the earlier
\* to the later clip; every transition stored before the call keeps its
\* type and duration, and only pairs that lacked a transition receive a new
\* one, of the default type.
TimelineOrder(data) == SortByPosition(data.clips)

Consecutive(data, from_clip_id, to_clip_id) ==
    \E i \in 1..(Len(TimelineOrder(data)) - 1) :
        /\ TimelineOrder(data)[i].clip_id = from_clip_id
        /\ TimelineOrder(data)[i + 1].clip_id = to_clip_id

\* what the call did, apart from the type of the transitions it created
AutoGenerated ==
    LET old == mprev.transitions
        new == After(mcall.r).transitions
        clips == TimelineOrder(mprev)
    IN /\ After(mcall.r).clips = mprev.clips
       /\ \A i \in 1..(Len(clips) - 1) :
              PairStored(After(mcall.r), clips[i].clip_id, clips[i + 1].clip_id)
       /\ Len(new) >= Len(old)
       /\ \A k \in 1..Len(old) : new[k] = old[k]
       /\ \A k \in (Len(old) + 1)..Len(new) :
              /\ ~PairStored(mprev, new[k].from_clip_id, new[k].to_clip_id)
              /\ Consecutive(mprev, new[k].from_clip_id, new[k].to_clip_id)

Created ==
    LET old == mprev.transitions
        new == After(mcall.r).transitions
    IN {new[k] : k \in (Len(old) + 1)..Len(new)}

C27_AutoGenerateOfDefaultType ==
    ManagerReturned("auto_generate_transitions") =>
        /\ AutoGenerated
        /\ \A t \in Created : t.type = mcall.args.default_type

\* C27, amended: the new transitions are of the default type when it is one
\* of the transition kinds, and of type "cut" when it is not.
C27_AutoGenerateOfKnownType ==
    ManagerReturned("auto_generate_transitions") =>
        /\ AutoGenerated
        /\ \A t \in Created :
               t.type = IF mcall.args.default_type \in TransitionKinds
                        THEN mcall.args.default_type ELSE "cut"

\* one pair had its transition and kept it, another was given one
C27_Witness ==
    /\ ManagerReturned("auto_generate_transitions")
    /\ mprev.transitions # << >>
    /\ \E i \in 1..(Len(TimelineOrder(mprev)) - 1) :
           PairStored(mprev, TimelineOrder(mprev)[i].clip_id,
                      TimelineOrder(mprev)[i + 1].clip_id)
    /\ Created # {}

\* C28: whenever add_clip, update_clip, split_clip, trim_in, trim_out,
\* set_speed or set_transition returns a success value, the persisted
\* timeline equals the manager's timeline in memory, so that a manager
\* constructed afterwards for the project sees the edit.
C28_SuccessIsPersisted ==
    (/\ mresult = "success"
     /\ mcall.op \in {"add_clip", "update_clip", "split_clip", "trim_in",
                      "trim_out", "set_speed", "set_transition"}) =>
        /\ disk.exists
        /\ load(disk) = After(mcall.r)

\* C29: reorder_clips(clip_order) only permutes the timeline: for every
\* clip_order (lists that omit stored ids, repeat an id or name unknown ids
\* included) the timeline holds the same clips after the call as before,
\* each as often; only their positions may differ.
Unplaced(clips) == [i \in 1..Len(clips) |-> [clips[i] EXCEPT !.position = 0]]

C29_ReorderPermutes ==
    ManagerReturned("reorder_clips") =>
        SameClips(Unplaced(After(mcall.r).clips), Unplaced(mprev.clips))

\* C30: after any sequence of add_clip, remove_clip, split_clip and
\* reorder_clips calls, the position values of the n stored clips are
\* exactly 0..n-1, each the index of its clip in the stored list.
C30_PositionsAreIndices ==
    \A data \in Timelines : \A i \in 1..Len(data.clips) :
        data.clips[i].position = i - 1

====
